---- MODULE Spec2Model ----
(***************************************************************************)
(* State-machine model of the audio recording application:                 *)
(*   - AuthProvider  (contexts/AuthContext.tsx, src/unnamed/part_001)      *)
(*   - AudioProvider (src/app/contexts/AudioContext.tsx)                   *)
(*   - AudioRecorderApp, the stand-alone recorder screen                   *)
(*     (src/unnamed/part_000), which keeps its own state and its own       *)
(*     'recordings' catalog and uses neither provider                      *)
(*                                                                         *)
(* Every handler is an async function.  An invocation captures the values  *)
(* of the React state of the render it was created in (its closure) and    *)
(* then runs from one await to the next; other handlers may be invoked and *)
(* may run between two awaits.  A task record holds the closure and the    *)
(* position of one invocation.  The effect of an awaited platform call     *)
(* takes place in the step that resumes the task after it.                 *)
(*                                                                         *)
(* The platform (expo-av, AsyncStorage, SecureStore, expo-file-system) is  *)
(* not part of the repository.  What the model takes from it:              *)
(*   - a Recording is none -> prepared -> recording -> unloaded;           *)
(*     prepareToRecordAsync throws when it is called while another         *)
(*     Recording is prepared; stopAndUnloadAsync throws when it is called  *)
(*     on a Recording that is not recording; of two calls made while it    *)
(*     is recording the first to settle finalizes it, and the other may    *)
(*     resolve as well or be rejected;                                     *)
(*   - a Sound is none -> loaded/playing -> stopped/finished -> unloaded;  *)
(*     stopAsync and playAsync throw on a Sound that is not loaded,        *)
(*     unloadAsync never throws, createAsync throws on a missing file;     *)
(*   - every reading of Date.now() is larger than the one before;          *)
(*   - any call may be rejected where a failure step says so.              *)
(***************************************************************************)
EXTENDS Integers, Sequences, FiniteSets, TLC

\* ------------------------------------------------------------------ bounds
MaxTasks == 2       \* handler invocations in flight at the same time
MaxClock == 2       \* readings of Date.now() (registered users + recordings)
MaxCaptures == 2    \* Audio.Recording objects constructed
MaxSounds == 2      \* Audio.Sound objects constructed
MaxBlob == 3        \* entries of the stored catalog

\* --------------------------------------------------------------- constants
LoginId == 123      \* id: 'user123'

\* ---------------------------------------------------------------- values
Null == 0           \* null handle, null recording id, null user id

DefaultSettings == [theme |-> "light", notifications |-> TRUE, cloudSync |-> FALSE]
SettingsInputs == {[theme |-> "dark", notifications |-> FALSE, cloudSync |-> TRUE],
                   [theme |-> "light", notifications |-> TRUE, cloudSync |-> TRUE]}

\* An e-mail address is its sequence of characters.
Emails == {<<"a", "@", "x">>}
Names == {<<"n">>}
Titles == {"My Take"}
Durations == {1500}             \* measured length of a capture, in ms

NoUser == [id |-> Null, email |-> <<>>, name |-> <<>>, settings |-> DefaultSettings]

RegisteredId(t) == 1000 + t     \* 'user' + Date.now()
RecordingId(t) == t             \* Date.now().toString()
RecordingIds == {RecordingId(t) : t \in 1..MaxClock}

RECURSIVE BeforeAt(_)
\* email.split('@')[0]
BeforeAt(s) ==
    IF s = <<>> \/ Head(s) = "@" THEN <<>> ELSE <<Head(s)>> \o BeforeAt(Tail(s))

NoCapture == [state |-> "none", durationMillis |-> 0]
NoBlob == [present |-> FALSE, recs |-> <<>>]
NoData == [present |-> FALSE, user |-> NoUser]

RECURSIVE SelectSeqBy(_, _, _)
\* Array.prototype.filter on the userId field: keep = TRUE keeps the entries
\* of uid, keep = FALSE keeps the entries of everybody else.
SelectSeqBy(s, uid, keep) ==
    IF s = <<>> THEN <<>>
    ELSE (IF (Head(s).userId = uid) = keep THEN <<Head(s)>> ELSE <<>>)
            \o SelectSeqBy(Tail(s), uid, keep)

VARIABLES
    \* AuthProvider
    user,              \* useState<User | null>
    token,             \* SecureStore 'userToken' present
    userData,          \* AsyncStorage 'userData'
    \* AudioProvider
    recordings,        \* useState<Recording[]>
    currentRecording,  \* useState<Audio.Recording | null>: a capture handle
    isRecording,
    currentSound,      \* useState<Audio.Sound | null>: a sound handle
    isPlaying,
    currentPlayingId,
    \* platform
    blob,              \* AsyncStorage 'audioRecordings'
    files,             \* uris of the audio payloads on the file system
    audioMode,         \* allowsRecordingIOS
    captures,          \* state of every Audio.Recording object
    sounds,            \* state and uri of every Audio.Sound object
    now,               \* readings of Date.now() so far
    \* AudioRecorderApp
    appRecording,          \* useState(null): recording, a capture handle
    appRecordings,         \* useState([]): recordings
    appIsRecording,        \* useState(false): isRecording
    appSound,              \* useState(null): sound
    appCurrentlyPlaying,   \* useState(null): currentlyPlaying, a sound handle
    appBlob,               \* AsyncStorage 'recordings'
    \* control
    tasks              \* handler invocations in flight

authVars == <<user, token, userData>>
audioVars == <<recordings, currentRecording, isRecording, currentSound, isPlaying,
               currentPlayingId>>
platformVars == <<blob, files, audioMode, captures, sounds>>
appVars == <<appRecording, appRecordings, appIsRecording, appSound, appCurrentlyPlaying,
             appBlob>>
vars == <<user, token, userData, recordings, currentRecording, isRecording,
          currentSound, isPlaying, currentPlayingId, blob, files, audioMode,
          captures, sounds, now, appRecording, appRecordings, appIsRecording,
          appSound, appCurrentlyPlaying, appBlob, tasks>>

\* ------------------------------------------------------------------ tasks
\* op, pc: the handler and the await it is suspended at.  user, recs, h: the user,
\* recordings and currentRecording / currentSound of the closure.  id: the
\* recordingId argument, title: the newTitle argument.  updated, others: the locals
\* updatedRecordings and otherUserRecordings.
NoTask == [op |-> "none", pc |-> "", user |-> NoUser, recs |-> <<>>, h |-> Null,
           id |-> Null, title |-> "", updated |-> <<>>, others |-> <<>>]

Slots == 1..MaxTasks
Free == {i \in Slots : tasks[i].op = "none"}
\* A new invocation takes the lowest free slot.
NewSlot == CHOOSE i \in Free : \A j \in Free : i <= j

Spawn(t) == Free # {} /\ tasks' = [tasks EXCEPT ![NewSlot] = t]
Goto(i, pc) == tasks' = [tasks EXCEPT ![i].pc = pc]
Become(i, t) == tasks' = [tasks EXCEPT ![i] = t]
Done(i) == Become(i, NoTask)
At(i, op, pc) == tasks[i].op = op /\ tasks[i].pc = pc

\* useEffect(() => { if (user) loadRecordings(); }, [user]): the render after
\* setUser(u) runs loadRecordings with u in its closure.
LoadTask(u) == [NoTask EXCEPT !.op = "loadRecordings", !.pc = "getItem", !.user = u]

\* setUser(u) as the last statement of task i, followed by the effect.
SetUser(i, u) ==
    /\ user' = u
    /\ IF u # NoUser THEN Become(i, LoadTask(u)) ELSE Done(i)

\* ------------------------------------------------------------- AuthProvider
CheckTask == [NoTask EXCEPT !.op = "checkAuthState", !.pc = "token"]

\* await SecureStore.getItemAsync('userToken')
checkAuthState_token(i) ==
    /\ At(i, "checkAuthState", "token")
    /\ IF token THEN Goto(i, "data") ELSE Done(i)
    /\ UNCHANGED <<appVars, authVars, audioVars, platformVars, now>>

\* await AsyncStorage.getItem('userData'); setUser(JSON.parse(userData))
checkAuthState_data(i) ==
    /\ At(i, "checkAuthState", "data")
    /\ IF userData.present THEN SetUser(i, userData.user)
                           ELSE Done(i) /\ UNCHANGED user
    /\ UNCHANGED <<appVars, token, userData, audioVars, platformVars, now>>

\* The app is closed and opened again: the providers are constructed anew (their
\* useState initial values), the handlers in flight and the platform objects of the
\* old process are gone, and AuthProvider's mount effect runs checkAuthState.
\* SecureStore, AsyncStorage and the file system keep their content.
appStart ==
    /\ user' = NoUser
    /\ recordings' = <<>>
    /\ currentRecording' = Null
    /\ isRecording' = FALSE
    /\ currentSound' = Null
    /\ isPlaying' = FALSE
    /\ currentPlayingId' = Null
    /\ audioMode' = FALSE
    /\ captures' = [h \in 1..MaxCaptures |->
                        IF captures[h].state = "none" THEN captures[h]
                        ELSE [captures[h] EXCEPT !.state = "unloaded"]]
    /\ sounds' = [s \in 1..MaxSounds |->
                        IF sounds[s].state = "none" THEN sounds[s]
                        ELSE [sounds[s] EXCEPT !.state = "unloaded"]]
    /\ tasks' = [i \in Slots |-> IF i = 1 THEN CheckTask ELSE NoTask]
    /\ UNCHANGED <<appVars, token, userData, blob, files, now>>

LoginUser(email) ==
    [id |-> LoginId, email |-> email, name |-> BeforeAt(email),
     settings |-> DefaultSettings]

RegisterUser(email, name, t) ==
    [id |-> RegisteredId(t), email |-> email, name |-> name,
     settings |-> DefaultSettings]

login(email) ==
    /\ Spawn([NoTask EXCEPT !.op = "login", !.pc = "token", !.user = LoginUser(email)])
    /\ UNCHANGED <<appVars, authVars, audioVars, platformVars, now>>

register(email, name) ==
    /\ now < MaxClock
    /\ now' = now + 1
    /\ Spawn([NoTask EXCEPT !.op = "register", !.pc = "token",
                            !.user = RegisterUser(email, name, now + 1)])
    /\ UNCHANGED <<appVars, authVars, audioVars, platformVars>>

\* await SecureStore.setItemAsync('userToken', 'dummy-token')
signIn_token(i) ==
    /\ At(i, "login", "token") \/ At(i, "register", "token")
    /\ token' = TRUE
    /\ Goto(i, "data")
    /\ UNCHANGED <<appVars, user, userData, audioVars, platformVars, now>>

\* await AsyncStorage.setItem('userData', JSON.stringify(userData)); setUser(userData)
signIn_data(i) ==
    /\ At(i, "login", "data") \/ At(i, "register", "data")
    /\ userData' = [present |-> TRUE, user |-> tasks[i].user]
    /\ SetUser(i, tasks[i].user)
    /\ UNCHANGED <<appVars, token, audioVars, platformVars, now>>

logout ==
    /\ Spawn([NoTask EXCEPT !.op = "logout", !.pc = "token"])
    /\ UNCHANGED <<appVars, authVars, audioVars, platformVars, now>>

\* await SecureStore.deleteItemAsync('userToken')
logout_token(i) ==
    /\ At(i, "logout", "token")
    /\ token' = FALSE
    /\ Goto(i, "data")
    /\ UNCHANGED <<appVars, user, userData, audioVars, platformVars, now>>

\* await AsyncStorage.removeItem('userData'); setUser(null)
logout_data(i) ==
    /\ At(i, "logout", "data")
    /\ userData' = NoData
    /\ SetUser(i, NoUser)
    /\ UNCHANGED <<appVars, token, audioVars, platformVars, now>>

\* an updated user built from the id and the settings alone
UpdatedUser_Bare(u, settings) == [NoUser EXCEPT !.id = u.id, !.settings = settings]

\* const updatedUser = { ...user, settings }
UpdatedUser(u, settings) == [u EXCEPT !.settings = settings]

updateUserSettings(settings) ==
    /\ IF user = NoUser
          THEN UNCHANGED tasks
          ELSE Spawn([NoTask EXCEPT !.op = "updateUserSettings", !.pc = "data",
                                    !.user = UpdatedUser(user, settings)])
    /\ UNCHANGED <<appVars, authVars, audioVars, platformVars, now>>

\* await AsyncStorage.setItem('userData', JSON.stringify(updatedUser)); setUser(updatedUser)
updateUserSettings_data(i) ==
    /\ At(i, "updateUserSettings", "data")
    /\ userData' = [present |-> TRUE, user |-> tasks[i].user]
    /\ SetUser(i, tasks[i].user)
    /\ UNCHANGED <<appVars, token, audioVars, platformVars, now>>

\* ------------------------------------------------------------ AudioProvider
FilterForUser(stored, uid) == SelectSeqBy(stored, uid, TRUE)

\* await AsyncStorage.getItem(RECORDINGS_STORAGE_KEY); setRecordings(filter)
loadRecordings_getItem(i) ==
    /\ At(i, "loadRecordings", "getItem")
    /\ recordings' = IF blob.present THEN FilterForUser(blob.recs, tasks[i].user.id)
                                     ELSE recordings
    /\ Done(i)
    /\ UNCHANGED <<appVars, authVars, currentRecording, isRecording, currentSound, isPlaying,
                   currentPlayingId, platformVars, now>>

\* The Recording objects of a list, by position.
HasId(recs, id) == \E k \in 1..Len(recs) : recs[k].id = id

\* recordings.find(r => r.id === recordingId)
Find(recs, id) ==
    recs[CHOOSE k \in 1..Len(recs) :
            recs[k].id = id /\ \A j \in 1..(k - 1) : recs[j].id # id]

\* a title numbered with the count of the entries instead of the count plus one
DefaultTitle_Count(recs) == "Recording " \o ToString(Len(recs))

\* `Recording ${recordings.length + 1}`
DefaultTitle(recs) == "Recording " \o ToString(Len(recs) + 1)

Uri(h) == h                     \* the file a capture handle records into

\* stopRecording's newRecording
NewRecording(t, h, millis, recs, u) ==
    [id |-> RecordingId(t), uri |-> Uri(h), duration |-> millis,
     title |-> DefaultTitle(recs), createdAt |-> t, userId |-> u.id]

\* recordings.filter(r => r.id !== recordingId)
WithoutId(recs, id) ==
    LET Keep(r) == r.id # id IN SelectSeq(recs, Keep)

\* recordings.map(r => r.id === recordingId ? { ...r, title: newTitle } : r)
WithTitle(recs, id, title) ==
    [k \in 1..Len(recs) |->
        IF recs[k].id = id THEN [recs[k] EXCEPT !.title = title] ELSE recs[k]]

\* saveRecordings: the entries of the stored blob that are kept
OtherUserRecordings(stored, uid) ==
    IF stored.present THEN SelectSeqBy(stored.recs, uid, FALSE) ELSE <<>>

\* saveRecordings: JSON.stringify([...otherUserRecordings, ...updatedRecordings])
Combined(others, updated) == [present |-> TRUE, recs |-> others \o updated]

\* ---- saveRecordings, as called by stopRecording, deleteRecording and
\* ---- updateRecordingTitle with tasks[i].updated
Saving(i) == tasks[i].op \in {"stopRecording", "deleteRecording", "updateRecordingTitle"}

\* const storedRecordings = await AsyncStorage.getItem(RECORDINGS_STORAGE_KEY)
saveRecordings_getItem(i) ==
    /\ Saving(i) /\ tasks[i].pc = "getItem"
    /\ tasks' = [tasks EXCEPT ![i].pc = "setItem",
                              ![i].others = OtherUserRecordings(blob, tasks[i].user.id)]
    /\ UNCHANGED <<appVars, authVars, audioVars, platformVars, now>>

\* await AsyncStorage.setItem(...) resolves; stopRecording then clears its handle.
saveRecordings_setItem(i) ==
    /\ Saving(i) /\ tasks[i].pc = "setItem"
    /\ Len(tasks[i].others) + Len(tasks[i].updated) <= MaxBlob
    /\ blob' = Combined(tasks[i].others, tasks[i].updated)
    /\ IF tasks[i].op = "stopRecording"
          THEN currentRecording' = Null /\ isRecording' = FALSE
          ELSE UNCHANGED <<currentRecording, isRecording>>
    /\ Done(i)
    /\ UNCHANGED <<appVars, authVars, recordings, currentSound, isPlaying, currentPlayingId,
                   files, audioMode, captures, sounds, now>>

\* await AsyncStorage.setItem(...) rejects: saveRecordings throws 'Failed to save
\* recordings' and the caller's catch block only reports it.
saveRecordings_fail(i) ==
    /\ Saving(i) /\ tasks[i].pc = "setItem"
    /\ Done(i)
    /\ UNCHANGED <<appVars, authVars, audioVars, platformVars, now>>

\* ---- startRecording
\* the Audio.Recording objects that are prepared and not yet unloaded
OpenCaptures == {h \in 1..MaxCaptures : captures[h].state \in {"prepared", "recording"}}
\* expo-av: prepareToRecordAsync throws 'Only one Recording object can be prepared at
\* a given time' when it is called while a prepared Recording exists; a Recording
\* counts as prepared from the moment its own prepareToRecordAsync resolves.
RecorderExists == OpenCaptures # {}

Unused == {h \in 1..MaxCaptures : captures[h].state = "none"}
NewCapture == CHOOSE h \in Unused : \A g \in Unused : h <= g
Starting == {i \in Slots : tasks[i].op = "startRecording" /\ tasks[i].h = Null}

startRecording ==
    /\ Cardinality(Unused) > Cardinality(Starting)
    /\ Spawn([NoTask EXCEPT !.op = "startRecording", !.pc = "permission"])
    /\ UNCHANGED <<appVars, authVars, audioVars, platformVars, now>>

\* const permission = await Audio.requestPermissionsAsync()
startRecording_permission(i, granted) ==
    /\ At(i, "startRecording", "permission")
    /\ IF granted THEN Goto(i, "audioMode") ELSE Done(i)
    /\ UNCHANGED <<appVars, authVars, audioVars, platformVars, now>>

\* await Audio.setAudioModeAsync({ allowsRecordingIOS: true, ... });
\* new Audio.Recording(); the call of newRecording.prepareToRecordAsync(HIGH_QUALITY)
startRecording_audioMode(i, ok) ==
    /\ At(i, "startRecording", "audioMode")
    /\ IF ok THEN /\ audioMode' = TRUE
                  /\ IF RecorderExists THEN Done(i) ELSE Goto(i, "prepare")
             ELSE UNCHANGED audioMode /\ Done(i)
    /\ UNCHANGED <<appVars, authVars, audioVars, blob, files, captures, sounds, now>>

\* await newRecording.prepareToRecordAsync(HIGH_QUALITY) settles
startRecording_prepare(i, ok) ==
    /\ At(i, "startRecording", "prepare")
    /\ IF ok THEN /\ captures' = [captures EXCEPT ![NewCapture].state = "prepared"]
                  /\ tasks' = [tasks EXCEPT ![i].pc = "start", ![i].h = NewCapture]
             ELSE UNCHANGED captures /\ Done(i)
    /\ UNCHANGED <<appVars, authVars, audioVars, blob, files, audioMode, sounds, now>>

\* setCurrentRecording and setIsRecording(true) moved before the await of startAsync
startRecording_start_Early(i, ok) ==
    /\ At(i, "startRecording", "start")
    /\ captures' = IF ok THEN [captures EXCEPT ![tasks[i].h].state = "recording"]
                         ELSE captures
    /\ currentRecording' = tasks[i].h
    /\ isRecording' = TRUE
    /\ Done(i)
    /\ UNCHANGED <<appVars, authVars, recordings, currentSound, isPlaying, currentPlayingId,
                   blob, files, audioMode, sounds, now>>

\* await newRecording.startAsync(); setCurrentRecording; setIsRecording(true)
startRecording_start(i, ok) ==
    /\ At(i, "startRecording", "start")
    /\ IF ok THEN /\ captures' = [captures EXCEPT ![tasks[i].h].state = "recording"]
                  /\ currentRecording' = tasks[i].h
                  /\ isRecording' = TRUE
             ELSE UNCHANGED <<captures, currentRecording, isRecording>>
    /\ Done(i)
    /\ UNCHANGED <<appVars, authVars, recordings, currentSound, isPlaying, currentPlayingId,
                   blob, files, audioMode, sounds, now>>

\* ---- stopRecording
Stopping == {i \in Slots : tasks[i].op = "stopRecording" /\ tasks[i].pc \in {"unload", "status"}}

\* stopAndUnloadAsync throws at the call on a Recording that is not recording (one
\* that is already unloaded); the catch block only reports it.
stopRecording ==
    /\ IF currentRecording = Null \/ user = NoUser
             \/ captures[currentRecording].state # "recording"
          THEN UNCHANGED tasks
          ELSE /\ now + Cardinality(Stopping) < MaxClock
               /\ Spawn([NoTask EXCEPT !.op = "stopRecording", !.pc = "unload",
                                       !.user = user, !.recs = recordings,
                                       !.h = currentRecording])
    /\ UNCHANGED <<appVars, authVars, audioVars, platformVars, now>>

\* await currentRecording.stopAndUnloadAsync() settles: it finalizes the capture; on
\* a handle that an overlapping call has finalized in the meantime it is rejected
\* here, or resolves in stopRecording_unloaded
stopRecording_unload(i, millis) ==
    /\ At(i, "stopRecording", "unload")
    /\ IF captures[tasks[i].h].state = "recording"
          THEN /\ captures' = [captures EXCEPT ![tasks[i].h] =
                                    [state |-> "unloaded", durationMillis |-> millis]]
               /\ files' = files \cup {Uri(tasks[i].h)}
               /\ Goto(i, "status")
          ELSE UNCHANGED <<captures, files>> /\ Done(i)
    /\ UNCHANGED <<appVars, authVars, audioVars, blob, audioMode, sounds, now>>

\* await currentRecording.stopAndUnloadAsync() resolves for a call that was made
\* while the handle was recording and that an overlapping call has overtaken
stopRecording_unloaded(i) ==
    /\ At(i, "stopRecording", "unload")
    /\ captures[tasks[i].h].state = "unloaded"
    /\ Goto(i, "status")
    /\ UNCHANGED <<appVars, authVars, audioVars, platformVars, now>>

\* const status = await currentRecording.getStatusAsync(); newRecording;
\* setRecordings(updatedRecordings); saveRecordings(updatedRecordings) up to its getItem
stopRecording_status(i) ==
    /\ At(i, "stopRecording", "status")
    /\ now' = now + 1
    /\ LET t == tasks[i]
           status == captures[t.h]
           updatedRecordings ==
               t.recs \o <<NewRecording(now + 1, t.h, status.durationMillis, t.recs, t.user)>>
       IN /\ recordings' = updatedRecordings
          /\ tasks' = [tasks EXCEPT ![i].pc = "getItem", ![i].updated = updatedRecordings]
    /\ UNCHANGED <<appVars, authVars, currentRecording, isRecording, currentSound, isPlaying,
                   currentPlayingId, platformVars>>

\* ---- updateRecordingTitle
updateRecordingTitle(id, title) ==
    /\ HasId(recordings, id)        \* the UI renames a recording it lists
    /\ LET updatedRecordings == WithTitle(recordings, id, title)
       IN /\ recordings' = updatedRecordings
          /\ Spawn([NoTask EXCEPT !.op = "updateRecordingTitle", !.pc = "getItem",
                                  !.user = user, !.recs = recordings, !.id = id,
                                  !.title = title, !.updated = updatedRecordings])
    /\ UNCHANGED <<appVars, authVars, currentRecording, isRecording, currentSound, isPlaying,
                   currentPlayingId, platformVars, now>>

\* ---- playback
NoSound == [state |-> "none", uri |-> Null]
Loaded(s) == sounds[s].state \in {"loaded", "playing", "stopped", "finished"}
NewSound == CHOOSE s \in 1..MaxSounds :
                sounds[s].state = "none" /\ \A g \in 1..(s - 1) : sounds[g].state # "none"
Creating == {i \in Slots : tasks[i].op = "playRecording"}

\* sound.stopAsync(): the status update it delivers runs setIsPlaying(false)
StopAsync(s) ==
    /\ sounds' = [sounds EXCEPT ![s].state = "stopped"]
    /\ isPlaying' = FALSE

\* sound.unloadAsync()
UnloadAsync(s) == sounds' = [sounds EXCEPT ![s].state = "unloaded"]

\* after the previous sound is released: recordings.find, then Audio.Sound.createAsync
PlayLookup(i) ==
    IF HasId(tasks[i].recs, tasks[i].id) THEN Goto(i, "create") ELSE Done(i)

playRecording(id) ==
    /\ Cardinality({s \in 1..MaxSounds : sounds[s].state = "none"}) > Cardinality(Creating)
    /\ Free # {}
    /\ LET t == [NoTask EXCEPT !.op = "playRecording", !.recs = recordings,
                               !.h = currentSound, !.id = id]
       IN IF currentSound # Null
             THEN Spawn([t EXCEPT !.pc = "stop"])
             ELSE IF HasId(recordings, id) THEN Spawn([t EXCEPT !.pc = "create"])
                                           ELSE UNCHANGED tasks
    /\ UNCHANGED <<appVars, authVars, audioVars, platformVars, now>>

\* await currentSound.stopAsync(): throws when the sound is not loaded
playRecording_stop(i) ==
    /\ At(i, "playRecording", "stop")
    /\ IF Loaded(tasks[i].h)
          THEN StopAsync(tasks[i].h) /\ Goto(i, "unload")
          ELSE UNCHANGED <<sounds, isPlaying>> /\ Done(i)
    /\ UNCHANGED <<appVars, authVars, recordings, currentRecording, isRecording, currentSound,
                   currentPlayingId, blob, files, audioMode, captures, now>>

\* await currentSound.unloadAsync(); recordings.find
playRecording_unload(i) ==
    /\ At(i, "playRecording", "unload")
    /\ UnloadAsync(tasks[i].h)
    /\ PlayLookup(i)
    /\ UNCHANGED <<appVars, authVars, audioVars, blob, files, audioMode, captures, now>>

\* await Audio.Sound.createAsync({ uri }, { shouldPlay: true }); setCurrentSound;
\* setCurrentPlayingId; setIsPlaying(true).  Loading a deleted file throws.
playRecording_create(i) ==
    /\ At(i, "playRecording", "create")
    /\ LET uri == Find(tasks[i].recs, tasks[i].id).uri
       IN IF uri \in files
             THEN /\ sounds' = [sounds EXCEPT ![NewSound] = [state |-> "playing", uri |-> uri]]
                  /\ currentSound' = NewSound
                  /\ currentPlayingId' = tasks[i].id
                  /\ isPlaying' = TRUE
             ELSE UNCHANGED <<sounds, currentSound, currentPlayingId, isPlaying>>
    /\ Done(i)
    /\ UNCHANGED <<appVars, authVars, recordings, currentRecording, isRecording, blob, files,
                   audioMode, captures, now>>

\* setOnPlaybackStatusUpdate callback on natural end of playback:
\* status.didJustFinish -> setCurrentPlayingId(null); setIsPlaying(false)
didJustFinish(s) ==
    /\ sounds[s].state = "playing"
    /\ sounds' = [sounds EXCEPT ![s].state = "finished"]
    /\ currentPlayingId' = Null
    /\ isPlaying' = FALSE
    /\ UNCHANGED <<appVars, authVars, recordings, currentRecording, isRecording, currentSound,
                   blob, files, audioMode, captures, now, tasks>>

stopPlaying ==
    /\ IF currentSound = Null
          THEN UNCHANGED tasks
          ELSE Spawn([NoTask EXCEPT !.op = "stopPlaying", !.pc = "stop", !.h = currentSound])
    /\ UNCHANGED <<appVars, authVars, audioVars, platformVars, now>>

stopPlaying_stop(i) ==
    /\ At(i, "stopPlaying", "stop")
    /\ IF Loaded(tasks[i].h)
          THEN StopAsync(tasks[i].h) /\ Goto(i, "unload")
          ELSE UNCHANGED <<sounds, isPlaying>> /\ Done(i)
    /\ UNCHANGED <<appVars, authVars, recordings, currentRecording, isRecording, currentSound,
                   currentPlayingId, blob, files, audioMode, captures, now>>

\* await currentSound.unloadAsync(); setCurrentSound(null); setCurrentPlayingId(null);
\* setIsPlaying(false)
stopPlaying_unload(i) ==
    /\ At(i, "stopPlaying", "unload")
    /\ UnloadAsync(tasks[i].h)
    /\ currentSound' = Null
    /\ currentPlayingId' = Null
    /\ isPlaying' = FALSE
    /\ Done(i)
    /\ UNCHANGED <<appVars, authVars, recordings, currentRecording, isRecording, blob, files,
                   audioMode, captures, now>>

\* ---- deleteRecording
\* after `await stopPlaying()`: recordings.find, then FileSystem.deleteAsync
DeleteLookup(i) ==
    IF HasId(tasks[i].recs, tasks[i].id) THEN Goto(i, "deleteAsync") ELSE Done(i)

deleteRecording(id) ==
    /\ Free # {}
    /\ LET t == [NoTask EXCEPT !.op = "deleteRecording", !.user = user,
                               !.recs = recordings, !.id = id]
       IN IF currentPlayingId = id /\ currentSound # Null
             THEN Spawn([t EXCEPT !.pc = "stop", !.h = currentSound])
             ELSE IF HasId(recordings, id) THEN Spawn([t EXCEPT !.pc = "deleteAsync"])
                                           ELSE UNCHANGED tasks
    /\ UNCHANGED <<appVars, authVars, audioVars, platformVars, now>>

\* stopPlaying's stopAsync: its own catch block swallows the error of a sound that
\* is not loaded, and deleteRecording goes on
deleteRecording_stop(i) ==
    /\ At(i, "deleteRecording", "stop")
    /\ IF Loaded(tasks[i].h)
          THEN StopAsync(tasks[i].h) /\ Goto(i, "unload")
          ELSE UNCHANGED <<sounds, isPlaying>> /\ DeleteLookup(i)
    /\ UNCHANGED <<appVars, authVars, recordings, currentRecording, isRecording, currentSound,
                   currentPlayingId, blob, files, audioMode, captures, now>>

deleteRecording_unload(i) ==
    /\ At(i, "deleteRecording", "unload")
    /\ UnloadAsync(tasks[i].h)
    /\ currentSound' = Null
    /\ currentPlayingId' = Null
    /\ isPlaying' = FALSE
    /\ DeleteLookup(i)
    /\ UNCHANGED <<appVars, authVars, recordings, currentRecording, isRecording, blob, files,
                   audioMode, captures, now>>

\* await FileSystem.deleteAsync(recording.uri, { idempotent: true });
\* setRecordings(updatedRecordings); saveRecordings(updatedRecordings) up to its getItem
deleteRecording_deleteAsync(i) ==
    /\ At(i, "deleteRecording", "deleteAsync")
    /\ files' = files \ {Find(tasks[i].recs, tasks[i].id).uri}
    /\ LET updatedRecordings == WithoutId(tasks[i].recs, tasks[i].id)
       IN /\ recordings' = updatedRecordings
          /\ tasks' = [tasks EXCEPT ![i].pc = "getItem", ![i].updated = updatedRecordings]
    /\ UNCHANGED <<appVars, authVars, currentRecording, isRecording, currentSound, isPlaying,
                   currentPlayingId, blob, audioMode, captures, sounds, now>>

\* --------------------------------------------------------- AudioRecorderApp
\* The stand-alone screen keeps entries {id, date, uri} under the key 'recordings'.
AppLoadTask == [NoTask EXCEPT !.op = "App.loadRecordings", !.pc = "getItem"]
AppSaveTask(updated) ==
    [NoTask EXCEPT !.op = "App.saveRecordings", !.pc = "setItem", !.updated = updated]

\* The app is closed and opened again: the component is constructed anew and its
\* mount effect runs loadRecordings() and requestPermission(), which only reports.
App_mount ==
    /\ appRecording' = Null
    /\ appRecordings' = <<>>
    /\ appIsRecording' = FALSE
    /\ appSound' = Null
    /\ appCurrentlyPlaying' = Null
    /\ audioMode' = FALSE
    /\ captures' = [h \in 1..MaxCaptures |->
                        IF captures[h].state = "none" THEN captures[h]
                        ELSE [captures[h] EXCEPT !.state = "unloaded"]]
    /\ sounds' = [s \in 1..MaxSounds |->
                        IF sounds[s].state = "none" THEN sounds[s]
                        ELSE [sounds[s] EXCEPT !.state = "unloaded"]]
    /\ tasks' = [i \in Slots |-> IF i = 1 THEN AppLoadTask ELSE NoTask]
    /\ UNCHANGED <<authVars, audioVars, blob, files, now, appBlob>>

\* await AsyncStorage.getItem('recordings'); setRecordings(JSON.parse(storedRecordings))
App_loadRecordings_getItem(i) ==
    /\ At(i, "App.loadRecordings", "getItem")
    /\ appRecordings' = IF appBlob.present THEN appBlob.recs ELSE appRecordings
    /\ Done(i)
    /\ UNCHANGED <<authVars, audioVars, platformVars, now, appRecording, appIsRecording,
                   appSound, appCurrentlyPlaying, appBlob>>

\* await AsyncStorage.setItem('recordings', JSON.stringify(updatedRecordings)); a
\* rejection is only logged
App_saveRecordings_setItem(i, ok) ==
    /\ At(i, "App.saveRecordings", "setItem")
    /\ appBlob' = IF ok THEN [present |-> TRUE, recs |-> tasks[i].updated] ELSE appBlob
    /\ Done(i)
    /\ UNCHANGED <<authVars, audioVars, platformVars, now, appRecording, appRecordings,
                   appIsRecording, appSound, appCurrentlyPlaying>>

\* ---- startRecording; the record button calls it while isRecording is false
AppStarting == {i \in Slots : tasks[i].op = "App.startRecording"}

App_startRecording ==
    /\ ~appIsRecording
    /\ Cardinality(Unused) > Cardinality(AppStarting)
    /\ Spawn([NoTask EXCEPT !.op = "App.startRecording", !.pc = "permission"])
    /\ UNCHANGED <<authVars, audioVars, platformVars, now, appVars>>

\* const permissionResponse = await Audio.requestPermissionsAsync()
App_startRecording_permission(i, granted) ==
    /\ At(i, "App.startRecording", "permission")
    /\ IF granted THEN Goto(i, "audioMode") ELSE Done(i)
    /\ UNCHANGED <<authVars, audioVars, platformVars, now, appVars>>

\* await Audio.setAudioModeAsync({ allowsRecordingIOS: true, ... }); the call of
\* Audio.Recording.createAsync(HIGH_QUALITY), which prepares and starts a Recording
App_startRecording_audioMode(i, ok) ==
    /\ At(i, "App.startRecording", "audioMode")
    /\ IF ok THEN /\ audioMode' = TRUE
                  /\ IF RecorderExists THEN Done(i) ELSE Goto(i, "create")
             ELSE UNCHANGED audioMode /\ Done(i)
    /\ UNCHANGED <<authVars, audioVars, blob, files, captures, sounds, now, appVars>>

\* const { recording } = await Audio.Recording.createAsync(HIGH_QUALITY) settles;
\* setRecording(recording); setIsRecording(true)
App_startRecording_create(i, ok) ==
    /\ At(i, "App.startRecording", "create")
    /\ IF ok THEN /\ captures' = [captures EXCEPT ![NewCapture].state = "recording"]
                  /\ appRecording' = NewCapture
                  /\ appIsRecording' = TRUE
             ELSE UNCHANGED <<captures, appRecording, appIsRecording>>
    /\ Done(i)
    /\ UNCHANGED <<authVars, audioVars, blob, files, audioMode, sounds, now,
                   appRecordings, appSound, appCurrentlyPlaying, appBlob>>

\* ---- stopRecording; the record button calls it while isRecording is true
AppStopping == {i \in Slots : tasks[i].op = "App.stopRecording"}

\* if (recording) { setRecording(undefined); await recording.stopAndUnloadAsync(); ... }
\* setIsRecording(false)
App_stopRecording ==
    /\ appIsRecording
    /\ IF appRecording = Null
          THEN /\ appIsRecording' = FALSE
               /\ UNCHANGED <<appRecording, tasks>>
          ELSE /\ now + Cardinality(AppStopping) < MaxClock
               /\ appRecording' = Null
               /\ Spawn([NoTask EXCEPT !.op = "App.stopRecording", !.pc = "unload",
                                       !.h = appRecording])
               /\ UNCHANGED appIsRecording
    /\ UNCHANGED <<authVars, audioVars, platformVars, now, appRecordings, appSound,
                   appCurrentlyPlaying, appBlob>>

\* await recording.stopAndUnloadAsync(): nothing catches a rejection, and the rest
\* of stopRecording does not run
App_stopRecording_unload(i, ok) ==
    /\ At(i, "App.stopRecording", "unload")
    /\ IF ok /\ captures[tasks[i].h].state = "recording"
          THEN /\ captures' = [captures EXCEPT ![tasks[i].h].state = "unloaded"]
               /\ files' = files \cup {Uri(tasks[i].h)}
               /\ Goto(i, "audioMode")
          ELSE UNCHANGED <<captures, files>> /\ Done(i)
    /\ UNCHANGED <<authVars, audioVars, blob, audioMode, sounds, now, appVars>>

\* { id: Date.now().toString(), date: new Date().toLocaleString(), uri }
AppNewRecording(t, h) == [id |-> RecordingId(t), date |-> t, uri |-> Uri(h)]

\* await Audio.setAudioModeAsync({ allowsRecordingIOS: false }); newRecording;
\* setRecordings(prev => [...prev, newRecording]) with saveRecordings(updatedRecordings)
\* not awaited; setIsRecording(false)
App_stopRecording_audioMode(i, ok) ==
    /\ At(i, "App.stopRecording", "audioMode")
    /\ IF ok
          THEN LET updatedRecordings ==
                       appRecordings \o <<AppNewRecording(now + 1, tasks[i].h)>>
               IN /\ audioMode' = FALSE
                  /\ now' = now + 1
                  /\ appRecordings' = updatedRecordings
                  /\ appIsRecording' = FALSE
                  /\ Become(i, AppSaveTask(updatedRecordings))
          ELSE UNCHANGED <<audioMode, now, appRecordings, appIsRecording>> /\ Done(i)
    /\ UNCHANGED <<authVars, audioVars, blob, files, captures, sounds, appRecording,
                   appSound, appCurrentlyPlaying, appBlob>>

\* ---- deleteRecording: the Delete button of the confirmation dialog
App_deleteRecording(id) ==
    /\ HasId(appRecordings, id)     \* the list item the button belongs to
    /\ LET updatedRecordings == WithoutId(appRecordings, id)
       IN /\ appRecordings' = updatedRecordings
          /\ Spawn(AppSaveTask(updatedRecordings))
    /\ UNCHANGED <<authVars, audioVars, platformVars, now, appRecording, appIsRecording,
                   appSound, appCurrentlyPlaying, appBlob>>

\* ---- playRecording(item.uri, item.id)
AppCreating == {i \in Slots : tasks[i].op = "App.playRecording" /\ tasks[i].pc # "play"}

App_playRecording(id) ==
    /\ HasId(appRecordings, id)     \* the list item the button belongs to
    /\ Cardinality({s \in 1..MaxSounds : sounds[s].state = "none"}) > Cardinality(AppCreating)
    /\ Spawn([NoTask EXCEPT !.op = "App.playRecording", !.recs = appRecordings, !.id = id,
                            !.h = appCurrentlyPlaying,
                            !.pc = IF appCurrentlyPlaying # Null THEN "stop" ELSE "create"])
    /\ UNCHANGED <<authVars, audioVars, platformVars, now, appVars>>

\* await currentlyPlaying.stopAsync(): throws when the sound is not loaded
App_playRecording_stop(i) ==
    /\ At(i, "App.playRecording", "stop")
    /\ IF Loaded(tasks[i].h)
          THEN sounds' = [sounds EXCEPT ![tasks[i].h].state = "stopped"] /\ Goto(i, "unload")
          ELSE UNCHANGED sounds /\ Done(i)
    /\ UNCHANGED <<authVars, audioVars, blob, files, audioMode, captures, now, appVars>>

\* await currentlyPlaying.unloadAsync()
App_playRecording_unload(i) ==
    /\ At(i, "App.playRecording", "unload")
    /\ UnloadAsync(tasks[i].h)
    /\ Goto(i, "create")
    /\ UNCHANGED <<authVars, audioVars, blob, files, audioMode, captures, now, appVars>>

\* const { sound: newSound } = await Audio.Sound.createAsync({ uri });
\* setSound(newSound); setCurrentlyPlaying(newSound)
App_playRecording_create(i) ==
    /\ At(i, "App.playRecording", "create")
    /\ LET uri == Find(tasks[i].recs, tasks[i].id).uri
       IN IF uri \in files
             THEN /\ sounds' = [sounds EXCEPT ![NewSound] = [state |-> "loaded", uri |-> uri]]
                  /\ appSound' = NewSound
                  /\ appCurrentlyPlaying' = NewSound
                  /\ tasks' = [tasks EXCEPT ![i].pc = "play", ![i].h = NewSound]
             ELSE UNCHANGED <<sounds, appSound, appCurrentlyPlaying>> /\ Done(i)
    /\ UNCHANGED <<authVars, audioVars, blob, files, audioMode, captures, now,
                   appRecording, appRecordings, appIsRecording, appBlob>>

\* await newSound.playAsync(); newSound.setOnPlaybackStatusUpdate(...)
App_playRecording_play(i) ==
    /\ At(i, "App.playRecording", "play")
    /\ sounds' = IF Loaded(tasks[i].h) THEN [sounds EXCEPT ![tasks[i].h].state = "playing"]
                                       ELSE sounds
    /\ Done(i)
    /\ UNCHANGED <<authVars, audioVars, blob, files, audioMode, captures, now, appVars>>

\* status.didJustFinish -> setCurrentlyPlaying(null)
App_didJustFinish(s) ==
    /\ sounds[s].state = "playing"
    /\ sounds' = [sounds EXCEPT ![s].state = "finished"]
    /\ appCurrentlyPlaying' = Null
    /\ UNCHANGED <<authVars, audioVars, blob, files, audioMode, captures, now,
                   appRecording, appRecordings, appIsRecording, appSound, appBlob, tasks>>

\* ------------------------------------------------------------ specification
\* The state of newly constructed components on a newly installed app.
Constructed ==
    /\ user = NoUser
    /\ token = FALSE
    /\ userData = NoData
    /\ recordings = <<>>
    /\ currentRecording = Null
    /\ isRecording = FALSE
    /\ currentSound = Null
    /\ isPlaying = FALSE
    /\ currentPlayingId = Null
    /\ blob = NoBlob
    /\ files = {}
    /\ audioMode = FALSE
    /\ captures = [h \in 1..MaxCaptures |-> NoCapture]
    /\ sounds = [s \in 1..MaxSounds |-> NoSound]
    /\ now = 0
    /\ appRecording = Null
    /\ appRecordings = <<>>
    /\ appIsRecording = FALSE
    /\ appSound = Null
    /\ appCurrentlyPlaying = Null
    /\ appBlob = NoBlob

\* AuthProvider's mount effect runs checkAuthState.
Init ==
    /\ Constructed
    /\ tasks = [i \in Slots |-> IF i = 1 THEN CheckTask ELSE NoTask]

\* ---- handler invocations (UI events) and resumptions after an await
AuthInvoke ==
    \/ \E e \in Emails : login(e)
    \/ \E e \in Emails, n \in Names : register(e, n)
    \/ logout
    \/ appStart

AuthStep ==
    \/ \E i \in Slots : checkAuthState_token(i)
    \/ \E i \in Slots : checkAuthState_data(i)
    \/ \E i \in Slots : signIn_token(i)
    \/ \E i \in Slots : signIn_data(i)
    \/ \E i \in Slots : logout_token(i)
    \/ \E i \in Slots : logout_data(i)
    \/ \E i \in Slots : loadRecordings_getItem(i)

CaptureInvoke ==
    \/ startRecording
    \/ stopRecording

CaptureStep ==
    \/ \E i \in Slots : startRecording_permission(i, TRUE)
    \/ \E i \in Slots : startRecording_audioMode(i, TRUE)
    \/ \E i \in Slots : startRecording_prepare(i, TRUE)
    \/ \E i \in Slots : startRecording_start(i, TRUE)
    \/ \E i \in Slots, ms \in Durations : stopRecording_unload(i, ms)
    \/ \E i \in Slots : stopRecording_status(i)
    \/ \E i \in Slots : saveRecordings_getItem(i)
    \/ \E i \in Slots : saveRecordings_setItem(i)

RenameInvoke ==
    \E id \in RecordingIds, t \in Titles : updateRecordingTitle(id, t)

CatalogInvoke ==
    \/ RenameInvoke
    \/ \E id \in RecordingIds : deleteRecording(id)

CatalogStep ==
    \/ \E i \in Slots : deleteRecording_stop(i)
    \/ \E i \in Slots : deleteRecording_unload(i)
    \/ \E i \in Slots : deleteRecording_deleteAsync(i)

PlaybackInvoke ==
    \/ \E id \in RecordingIds : playRecording(id)
    \/ stopPlaying

PlaybackStep ==
    \/ \E i \in Slots : playRecording_stop(i)
    \/ \E i \in Slots : playRecording_unload(i)
    \/ \E i \in Slots : playRecording_create(i)
    \/ \E i \in Slots : stopPlaying_stop(i)
    \/ \E i \in Slots : stopPlaying_unload(i)
    \/ \E s \in 1..MaxSounds : didJustFinish(s)

ProfileInvoke ==
    \E s \in SettingsInputs : updateUserSettings(s)

ProfileStep ==
    \E i \in Slots : updateUserSettings_data(i)

\* a platform call that two overlapping handlers made on one object
OverlapStep ==
    \E i \in Slots : stopRecording_unloaded(i)

\* a rejected platform call
FailureStep ==
    \/ \E i \in Slots : startRecording_permission(i, FALSE)
    \/ \E i \in Slots : startRecording_audioMode(i, FALSE)
    \/ \E i \in Slots : startRecording_prepare(i, FALSE)
    \/ \E i \in Slots : startRecording_start(i, FALSE)
    \/ \E i \in Slots : saveRecordings_fail(i)

Invoke == AuthInvoke \/ CaptureInvoke \/ CatalogInvoke \/ PlaybackInvoke \/ ProfileInvoke
Step == AuthStep \/ CaptureStep \/ OverlapStep \/ CatalogStep \/ PlaybackStep \/ ProfileStep
            \/ FailureStep

\* Every interleaving of every handler of the providers.
Next == Invoke \/ Step
Spec == Init /\ [][Next]_vars

\* ---- the stand-alone AudioRecorderApp screen: its mount effect runs loadRecordings
InitApp ==
    /\ Constructed
    /\ tasks = [i \in Slots |-> IF i = 1 THEN AppLoadTask ELSE NoTask]

AppInvoke ==
    \/ App_startRecording
    \/ App_stopRecording
    \/ \E id \in RecordingIds : App_playRecording(id)
    \/ \E id \in RecordingIds : App_deleteRecording(id)
    \/ App_mount

AppStep ==
    \/ \E i \in Slots : App_loadRecordings_getItem(i)
    \/ \E i \in Slots : App_saveRecordings_setItem(i, TRUE)
    \/ \E i \in Slots : App_startRecording_permission(i, TRUE)
    \/ \E i \in Slots : App_startRecording_audioMode(i, TRUE)
    \/ \E i \in Slots : App_startRecording_create(i, TRUE)
    \/ \E i \in Slots : App_stopRecording_unload(i, TRUE)
    \/ \E i \in Slots : App_stopRecording_audioMode(i, TRUE)
    \/ \E i \in Slots : App_playRecording_stop(i)
    \/ \E i \in Slots : App_playRecording_unload(i)
    \/ \E i \in Slots : App_playRecording_create(i)
    \/ \E i \in Slots : App_playRecording_play(i)
    \/ \E s \in 1..MaxSounds : App_didJustFinish(s)

\* a rejected platform call
AppFailureStep ==
    \/ \E i \in Slots : App_saveRecordings_setItem(i, FALSE)
    \/ \E i \in Slots : App_startRecording_permission(i, FALSE)
    \/ \E i \in Slots : App_startRecording_audioMode(i, FALSE)
    \/ \E i \in Slots : App_startRecording_create(i, FALSE)
    \/ \E i \in Slots : App_stopRecording_unload(i, FALSE)
    \/ \E i \in Slots : App_stopRecording_audioMode(i, FALSE)

SpecApp == InitApp /\ [][AppInvoke \/ AppStep \/ AppFailureStep]_vars

\* No handler is in flight.
Quiet == Free = Slots

\* The UI invokes a handler only when the previous one has settled.
SerialNext ==
    \/ Quiet /\ (AuthInvoke \/ CaptureInvoke \/ CatalogInvoke \/ PlaybackInvoke)
    \/ AuthStep \/ CaptureStep \/ CatalogStep \/ PlaybackStep \/ FailureStep
SpecSerial == Init /\ [][SerialNext]_vars

\* The recording session, used serially, with platform calls that may fail.
SpecRecord ==
    Init /\ [][(Quiet /\ (AuthInvoke \/ CaptureInvoke))
                    \/ AuthStep \/ CaptureStep \/ FailureStep]_vars

\* The recording session under every interleaving of its handlers.
SpecCapture ==
    Init /\ [][(Quiet /\ AuthInvoke) \/ CaptureInvoke \/ AuthStep \/ CaptureStep
                    \/ OverlapStep]_vars

\* The authentication session under every interleaving of its handlers.
SpecAuth == Init /\ [][AuthInvoke \/ AuthStep \/ ProfileInvoke \/ ProfileStep]_vars

\* No handler that saves is in flight.
NoSave == \A i \in Slots : ~Saving(i)

\* Sessions used serially, and renames invoked at any moment
SpecRename ==
    Init /\ [][(Quiet /\ (AuthInvoke \/ CaptureInvoke)) \/ RenameInvoke
                    \/ AuthStep \/ CaptureStep]_vars

\* ... or only when no saveRecordings call is outstanding.
SpecRenameNoOverlap ==
    Init /\ [][(Quiet /\ (AuthInvoke \/ CaptureInvoke)) \/ (NoSave /\ RenameInvoke)
                    \/ AuthStep \/ CaptureStep]_vars

\* The authentication session, used serially.
SpecProfile ==
    Init /\ [][(Quiet /\ (AuthInvoke \/ ProfileInvoke)) \/ AuthStep \/ ProfileStep]_vars

\* Sessions used serially, and playback handlers invoked at any moment.
SpecPlayback ==
    Init /\ [][(Quiet /\ (AuthInvoke \/ CaptureInvoke)) \/ PlaybackInvoke
                    \/ AuthStep \/ CaptureStep \/ PlaybackStep]_vars

\* ------------------------------------------------------------------ claims
UserIds == {LoginId} \cup {RegisteredId(t) : t \in 1..MaxClock}
OpenSounds == {s \in 1..MaxSounds : Loaded(s)}
\* saveRecordings calls that have read the stored blob and not yet written it
BetweenReadAndWrite == {i \in Slots : Saving(i) /\ tasks[i].pc = "setItem"}

\* C1: with saveRecordings calls that do not overlap, a save made in the session of
\* a user makes a later loadRecordings of that user return exactly the list saved,
\* and leaves what loadRecordings returns for every other user as it was.
C1_SaveLoadRoundTrip ==
    [][\A i \in Slots :
          (saveRecordings_setItem(i) /\ tasks[i].user # NoUser)
          => /\ FilterForUser(blob'.recs, tasks[i].user.id) = tasks[i].updated
             /\ \A v \in UserIds \ {tasks[i].user.id} :
                    FilterForUser(blob'.recs, v) = FilterForUser(blob.recs, v)]_vars

\* C2: at most one saveRecordings call is between its read of the 'audioRecordings'
\* blob and its write of it: the read and write steps of two saves never interleave.
C2_SavesNeverInterleave == Cardinality(BetweenReadAndWrite) <= 1

\* C3: at most one capture handle is open (prepared or recording) in every
\* reachable state, whatever startRecording calls were made and when.
C3_AtMostOneCaptureHandle == Cardinality(OpenCaptures) <= 1

\* C4: at most one sound handle is open (loaded) in every reachable state, whatever
\* playRecording calls were made and when.
C4_AtMostOneSoundHandle == Cardinality(OpenSounds) <= 1

\* C5: every Recording of the exposed recordings list carries the id of the active
\* user; with no active user the list exposes nothing.
C5_ExposedBelongToActiveUser ==
    \A k \in 1..Len(recordings) : recordings[k].userId = user.id /\ user # NoUser

\* C6: deleteRecording of the recording that is playing has released the sound
\* handle when it deletes the audio file, and when it completes neither the
\* recordings list nor the stored catalog contains the recording.
C6_DeleteOfPlayingRecording ==
    [][\A i \in Slots :
          (tasks[i].op = "deleteRecording" /\ tasks[i].h # Null)
          => /\ deleteRecording_deleteAsync(i) => ~Loaded(tasks[i].h)
             /\ saveRecordings_setItem(i)
                   => /\ ~HasId(recordings', tasks[i].id)
                      /\ ~HasId(blob'.recs, tasks[i].id)]_vars

C8_StopWithoutHandleIsNoOp ==
    [][/\ (currentRecording = Null /\ OpenCaptures = {} /\ stopRecording)
            => UNCHANGED vars
       /\ (appRecording = Null /\ OpenCaptures = {} /\ App_stopRecording)
            => UNCHANGED vars]_vars

\* C9: when updateRecordingTitle(id, newTitle) completes, loadRecordings of the
\* recording's owner returns the recording with the new title and its other fields
\* as they were, and the other recordings of every user as they were.
C9_RenameThenLoad ==
    [][\A i \in Slots :
          (tasks[i].op = "updateRecordingTitle" /\ saveRecordings_setItem(i))
          => LET t == tasks[i]
                 old == Find(t.recs, t.id)
                 loaded == FilterForUser(blob'.recs, old.userId)
             IN /\ HasId(loaded, t.id)
                /\ \A k \in 1..Len(loaded) :
                      loaded[k].id = t.id => loaded[k] = [old EXCEPT !.title = t.title]
                /\ \A v \in UserIds :
                      WithoutId(FilterForUser(blob'.recs, v), t.id)
                        = WithoutId(FilterForUser(IF v = t.user.id THEN t.recs
                                                  ELSE blob.recs, v), t.id)]_vars

SigningIn == \E i \in Slots : tasks[i].op \in {"login", "register", "checkAuthState"}
\* what checkAuthState on the next start does with the stored token and profile
ProbeAuthenticated == token /\ userData.present
LoggedOut == user = NoUser /\ ~ProbeAuthenticated

\* C10: logout completes with no user in memory, and once the session is logged out
\* (no user in memory, nothing stored that makes checkAuthState restore one) it
\* stays so until login, register or checkAuthState runs.
C10_LogoutIsFinal ==
    [][/\ (\E i \in Slots : logout_data(i)) => user' = NoUser
       /\ (LoggedOut /\ ~SigningIn) => LoggedOut']_vars

\* the session is Idle: not recording, and no capture handle in currentRecording
RecordingIdle == currentRecording = Null /\ ~isRecording

\* C11: when the catalog write of stopRecording fails, the capture handle has been
\* released and the session ends Idle: isRecording is false and currentRecording
\* holds no handle.
C11_FailedSaveEndsIdle ==
    [][\A i \in Slots :
          (tasks[i].op = "stopRecording" /\ saveRecordings_fail(i))
          => /\ captures'[tasks[i].h].state = "unloaded"
             /\ RecordingIdle']_vars

\* startRecording of task i ends in its catch block or at its early return
StartFailed(i) ==
    \/ startRecording_permission(i, FALSE)
    \/ startRecording_audioMode(i, FALSE)
    \/ RecorderExists /\ startRecording_audioMode(i, TRUE)
    \/ startRecording_prepare(i, FALSE)
    \/ startRecording_start(i, FALSE)

\* C12: a startRecording that fails at any step (permission denied, audio mode,
\* prepare or start rejected) changes neither isRecording nor currentRecording: a
\* session that was Idle stays Idle, with no capture handle in currentRecording.
C12_FailedStartStaysIdle ==
    [][\A i \in Slots :
          StartFailed(i) => /\ UNCHANGED <<currentRecording, isRecording>>
                            /\ RecordingIdle => RecordingIdle']_vars

\* startAsync was rejected after prepareToRecordAsync had resolved, the handler has
\* ended and the session is Idle.
C12_StartRejectedAfterPrepare ==
    /\ Quiet /\ RecordingIdle
    /\ \E h \in 1..MaxCaptures : captures[h].state = "prepared"

\* C13: loadRecordings that finds no stored 'audioRecordings' blob leaves the
\* recordings list empty, whatever the list held before the load.
C13_LoadOfAbsentBlobIsEmpty ==
    [][\A i \in Slots :
          (loadRecordings_getItem(i) /\ ~blob.present) => recordings' = <<>>]_vars

\* the playback session is Idle: no tracked id and no sound handle in currentSound
PlaybackIdle == currentSound = Null /\ currentPlayingId = Null

\* playRecording of task i reaches recordings.find and does not find its id
PlayNotFound(i) ==
    /\ ~HasId(tasks[i].recs, tasks[i].id)
    /\ playRecording_unload(i)

\* C14: playRecording(id) for an id that is not in the recordings list opens no
\* sound handle and leaves the playback session Idle (no tracked playing id, no
\* sound handle in currentSound, no sound open), whether the session was Idle or
\* another recording was playing when it was called.
C14_PlayOfUnknownIdEndsIdle ==
    [][/\ \A id \in RecordingIds :
            (PlaybackIdle /\ ~HasId(recordings, id) /\ playRecording(id))
            => UNCHANGED vars
       /\ \A i \in Slots :
            PlayNotFound(i) => PlaybackIdle' /\ OpenSounds' = {} /\ ~isPlaying']_vars

\* C15: updateUserSettings with no user in memory changes nothing; with a user in
\* memory, and run on its own, it completes with the given settings in the user in
\* memory and in the stored profile, and with the user's id, email and name as
\* they were.
C15_UpdateUserSettings ==
    [][/\ \A s \in SettingsInputs :
            (user = NoUser /\ updateUserSettings(s)) => UNCHANGED vars
       /\ \A s \in SettingsInputs :
            (user # NoUser /\ updateUserSettings(s))
            => \E i \in Slots : /\ tasks'[i].op = "updateUserSettings"
                                 /\ tasks'[i].user.settings = s
       /\ \A i \in Slots :
            updateUserSettings_data(i)
            => /\ user'.settings = tasks[i].user.settings
               /\ user'.id = user.id /\ user'.email = user.email /\ user'.name = user.name
               /\ user' # NoUser
               /\ userData' = [present |-> TRUE, user |-> user']]_vars

\* The settings of a registered user have been updated and stored.
C15_SettingsStored ==
    /\ Quiet
    /\ user.id \in {RegisteredId(t) : t \in 1..MaxClock}
    /\ user.settings \in SettingsInputs /\ user.name \in Names /\ user.email \in Emails
    /\ userData = [present |-> TRUE, user |-> user]

\* C16: when stopRecording of a capturing session completes, the platform audio
\* mode is no longer the capture-enabled mode (allowsRecordingIOS) that
\* startRecording configured, in AudioProvider and in AudioRecorderApp.
C16_StopRestoresAudioMode ==
    [][\A i \in Slots :
          /\ (tasks[i].op = "stopRecording" /\ saveRecordings_setItem(i)) => ~audioMode'
          /\ App_stopRecording_audioMode(i, TRUE) => ~audioMode']_vars

\* what loadRecordings of the active user returns from the stored catalog
StoredForActiveUser == FilterForUser(blob.recs, user.id)

\* C17: when saveRecordings fails inside stopRecording, deleteRecording or
\* updateRecordingTitle, the recordings list is the list of before the operation,
\* and it equals the stored catalog entries of the active user.
C17_FailedSaveKeepsList ==
    [][\A i \in Slots :
          (saveRecordings_fail(i) /\ tasks[i].user = user /\ user # NoUser)
          => /\ recordings' = tasks[i].recs
             /\ recordings' = StoredForActiveUser']_vars

\* C18: when catalog-mutating operations of one user overlap, no update is lost:
\* stopRecording appends its Recording to the recordings list as the operations
\* invoked in the meantime have left it, so that the list (and the catalog that is
\* then written from it) has the effects of both.
C18_NoUpdateIsLost ==
    [][\A i \in Slots :
          (stopRecording_status(i) /\ tasks[i].user = user)
          => /\ Len(recordings') = Len(recordings) + 1
             /\ SubSeq(recordings', 1, Len(recordings)) = recordings]_vars

\* a Recording of capture handle h is in the list
ListedCapture(recs, h) == \E k \in 1..Len(recs) : recs[k].uri = Uri(h)

\* C19: a capture gives at most one Recording: when stopRecording appends the
\* Recording of a capture, no stopRecording call has appended one for that capture
\* before (none is in the recordings list or in the stored catalog), in
\* AudioProvider and in AudioRecorderApp.
C19_OneRecordingPerCapture ==
    [][\A i \in Slots :
          /\ stopRecording_status(i)
                => /\ ~ListedCapture(recordings, tasks[i].h)
                   /\ ~ListedCapture(blob.recs, tasks[i].h)
          /\ App_stopRecording_audioMode(i, TRUE)
                => /\ ~ListedCapture(appRecordings, tasks[i].h)
                   /\ ~ListedCapture(appBlob.recs, tasks[i].h)]_vars

\* a sound handle is retained: currentSound holds a sound that is loaded
SoundRetained == currentSound # Null /\ Loaded(currentSound)

\* C20: whenever no operation is in flight, a sound handle is retained if and only
\* if a playing id is tracked; after the natural end of playback no id is tracked
\* and no sound handle is left open, and stopPlaying from there changes nothing.
C20_HandleIffTrackedId == Quiet => (SoundRetained <=> currentPlayingId # Null)
====
